---- MODULE Spec2Model ----
(***************************************************************************)
(* Model of src/microbit_V2026.01.1.ts: the line-oriented command          *)
(* interpreter of the micro:bit (process_command), its responder (reply)   *)
(* and the two transport listeners.                                        *)
(*                                                                         *)
(* Strings are sequences of one-character strings, so that trim,           *)
(* toLowerCase, split, parseInt and number-to-string conversion are        *)
(* computed character by character as the runtime computes them.           *)
(* Sequences are 1-based: parts[0] of the source is parts[1] here.         *)
(***************************************************************************)
EXTENDS Integers, Sequences, FiniteSets, TLC

\* Number of lines the two listeners deliver in one behaviour.
MaxLines == 2

(***************************************************************************)
(* Characters and string literals of the source                            *)
(***************************************************************************)
UpperChars == <<"A","B","C","D","E","F","G","H","I","J","K","L","M",
                "N","O","P","Q","R","S","T","U","V","W","X","Y","Z">>
LowerChars == <<"a","b","c","d","e","f","g","h","i","j","k","l","m",
                "n","o","p","q","r","s","t","u","v","w","x","y","z">>
DigitChars == <<"0","1","2","3","4","5","6","7","8","9">>

\* Characters String.trim() removes at either end.
WhiteSpace == {" ", "\t", "\r", "\n"}

S_get_sensor == <<"g","e","t","_","s","e","n","s","o","r">>
S_get_pin    == <<"g","e","t","_","p","i","n">>
S_pin        == <<"p","i","n">>
S_tone       == <<"t","o","n","e">>
S_print      == <<"p","r","i","n","t">>
S_plot       == <<"p","l","o","t">>
S_unplot     == <<"u","n","p","l","o","t">>
S_toggle     == <<"t","o","g","g","l","e">>
S_clear      == <<"c","l","e","a","r">>
S_reset      == <<"r","e","s","e","t">>
S_ping       == <<"p","i","n","g">>
S_version    == <<"v","e","r","s","i","o","n">>

S_temp    == <<"t","e","m","p">>
S_light   == <<"l","i","g","h","t">>
S_accel   == <<"a","c","c","e","l">>
S_compass == <<"c","o","m","p","a","s","s">>
S_p0 == <<"p","0">>
S_p1 == <<"p","1">>
S_p2 == <<"p","2">>
S_d  == <<"d">>

S_PIN_      == <<"P","I","N"," ">>
S_colon_    == <<":"," ">>
S_RESET_OK  == <<"R","E","S","E","T","_","O","K">>
S_pong      == <<"p","o","n","g">>
S_microbit_V2026_01_1 ==
    <<"m","i","c","r","o","b","i","t","_","V","2","0","2","6",".","0","1",".","1">>

(***************************************************************************)
(* Runtime string and number helpers                                       *)
(***************************************************************************)
\* Numbers of the runtime: an integer or NaN.
Num(n) == [nan |-> FALSE, n |-> n]
NaN    == [nan |-> TRUE, n |-> 0]

IndexIn(c, chars) == CHOOSE k \in 1..Len(chars) : chars[k] = c
IsIn(c, chars)    == \E k \in 1..Len(chars) : chars[k] = c

\* Mutant of toLowerCase: the line is not lower-cased.
toLowerCase_skipped(s) == s

\* String.toLowerCase(): A-Z become a-z, every other character is kept.
LowerChar(c) == IF IsIn(c, UpperChars) THEN LowerChars[IndexIn(c, UpperChars)] ELSE c
toLowerCase(s) == [i \in 1..Len(s) |-> LowerChar(s[i])]

\* String.trim(): drops the whitespace before the first and after the last
\* non-whitespace character.
RECURSIVE trimStart(_)
trimStart(s) ==
    IF Len(s) > 0 /\ s[1] \in WhiteSpace THEN trimStart(Tail(s)) ELSE s

RECURSIVE trimEnd(_)
trimEnd(s) ==
    IF Len(s) > 0 /\ s[Len(s)] \in WhiteSpace THEN trimEnd(SubSeq(s, 1, Len(s) - 1)) ELSE s

trim(s) == trimEnd(trimStart(s))

\* _py.py_string_split(s, " "): cuts at every single space; two adjacent
\* spaces, or a space at either end, give an empty part.
RECURSIVE split_from(_, _, _, _)
split_from(s, sep, start, i) ==
    IF i > Len(s) THEN <<SubSeq(s, start, Len(s))>>
    ELSE IF s[i] = sep
         THEN <<SubSeq(s, start, i - 1)>> \o split_from(s, sep, i + 1, i + 1)
         ELSE split_from(s, sep, start, i + 1)

\* Mutant of py_string_split: runs of separators are collapsed, as a split
\* without a separator argument does.
py_string_split_collapsing(s, sep) ==
    SelectSeq(split_from(s, sep, 1, 1), LAMBDA t : Len(t) > 0)

py_string_split(s, sep) == split_from(s, sep, 1, 1)

\* "" + n for an integer n: its decimal digits, "-" first when negative.
RECURSIVE NatToStr(_)
NatToStr(n) ==
    IF n < 10 THEN <<DigitChars[n + 1]>>
    ELSE NatToStr(n \div 10) \o <<DigitChars[(n % 10) + 1]>>

NumToStr(n) == IF n < 0 THEN <<"-">> \o NatToStr(0 - n) ELSE NatToStr(n)

\* parseInt(s): skips leading whitespace, reads an optional sign and the
\* longest run of decimal digits; NaN when there is no digit.
RECURSIVE DigitsValue(_, _)
DigitsValue(s, acc) ==
    IF Len(s) = 0 \/ ~IsIn(s[1], DigitChars) THEN acc
    ELSE DigitsValue(Tail(s), acc * 10 + (IndexIn(s[1], DigitChars) - 1))

parseInt(s) ==
    LET t    == trimStart(s)
        neg  == Len(t) > 0 /\ t[1] = "-"
        body == IF Len(t) > 0 /\ t[1] \in {"-", "+"} THEN Tail(t) ELSE t
    IN  IF Len(body) = 0 \/ ~IsIn(body[1], DigitChars) THEN NaN
        ELSE Num((IF neg THEN -1 ELSE 1) * DigitsValue(body, 0))

(***************************************************************************)
(* Effects: calls on the hardware facade and on the two transports, in     *)
(* the order the code makes them.  A read carries the value it returned.   *)
(***************************************************************************)
Ev(op, pin, nums, msg) == [op |-> op, pin |-> pin, nums |-> nums, msg |-> msg]

Temperature(v)      == Ev("temperature", "", <<Num(v)>>, <<>>)
LightLevel(v)       == Ev("lightLevel", "", <<Num(v)>>, <<>>)
Acceleration(v)     == Ev("acceleration", "Strength", <<Num(v)>>, <<>>)
CompassHeading(v)   == Ev("compassHeading", "", <<Num(v)>>, <<>>)
AnalogReadPin(p, v) == Ev("analogReadPin", p, <<Num(v)>>, <<>>)
DigitalWritePin(p, n) == Ev("digitalWritePin", p, <<n>>, <<>>)
AnalogWritePin(p, n)  == Ev("analogWritePin", p, <<n>>, <<>>)
Play(freq, dur)     == Ev("play", "", <<freq, dur>>, <<>>)
ShowString(s)       == Ev("showString", "", <<>>, s)
Plot(x, y)          == Ev("plot", "", <<x, y>>, <<>>)
Unplot(x, y)        == Ev("unplot", "", <<x, y>>, <<>>)
Toggle(x, y)        == Ev("toggle", "", <<x, y>>, <<>>)
ClearScreen         == Ev("clearScreen", "", <<>>, <<>>)
StopAllSounds       == Ev("stopAllSounds", "", <<>>, <<>>)
UartWriteLine(m)    == Ev("uartWriteLine", "", <<>>, m)
SerialWriteLine(m)  == Ev("serialWriteLine", "", <<>>, m)

\* Mutant of reply: the reply goes to the serial link only.
reply_serial_only(msg) == <<SerialWriteLine(msg)>>

\* function reply(msg)
reply(msg) == <<UartWriteLine(msg), SerialWriteLine(msg)>>

(***************************************************************************)
(* The branches of process_command.  parts is the token sequence and v the *)
(* value the hardware returns to a read made during this call.             *)
(***************************************************************************)
\* Mutant of do_get_sensor: an unrecognized sensor is answered with 0, as
\* get_pin answers an unrecognized pin.
do_get_sensor_default_zero(parts, v) ==
    IF Len(parts) < 2 THEN <<>>
    ELSE LET _type == parts[2]
         IN  IF _type = S_temp THEN <<Temperature(v)>> \o reply(NumToStr(v))
             ELSE IF _type = S_light THEN <<LightLevel(v)>> \o reply(NumToStr(v))
             ELSE IF _type = S_accel THEN <<Acceleration(v)>> \o reply(NumToStr(v))
             ELSE IF _type = S_compass THEN <<CompassHeading(v)>> \o reply(NumToStr(v))
             ELSE reply(NumToStr(0))

\* if (cmd == "get_sensor") { ... }
do_get_sensor(parts, v) ==
    IF Len(parts) < 2 THEN <<>>
    ELSE LET _type == parts[2]
         IN  IF _type = S_temp THEN <<Temperature(v)>> \o reply(NumToStr(v))
             ELSE IF _type = S_light THEN <<LightLevel(v)>> \o reply(NumToStr(v))
             ELSE IF _type = S_accel THEN <<Acceleration(v)>> \o reply(NumToStr(v))
             ELSE IF _type = S_compass THEN <<CompassHeading(v)>> \o reply(NumToStr(v))
             ELSE <<>>

\* Mutant of do_get_pin: an unrecognized pin is ignored without a reply.
do_get_pin_silent_unknown(parts, v) ==
    IF Len(parts) < 2 THEN <<>>
    ELSE LET p_name == parts[2]
             read   == IF p_name = S_p0 THEN <<AnalogReadPin("P0", v)>>
                       ELSE IF p_name = S_p1 THEN <<AnalogReadPin("P1", v)>>
                       ELSE IF p_name = S_p2 THEN <<AnalogReadPin("P2", v)>>
                       ELSE <<>>
         IN  IF read = <<>> THEN <<>>
             ELSE read \o reply(S_PIN_ \o p_name \o S_colon_ \o NumToStr(v))

\* Mutant of do_get_pin: the p1 branch reads P0.
do_get_pin_wrong_pin(parts, v) ==
    IF Len(parts) < 2 THEN <<>>
    ELSE LET p_name == parts[2]
             read   == IF p_name = S_p0 THEN <<AnalogReadPin("P0", v)>>
                       ELSE IF p_name = S_p1 THEN <<AnalogReadPin("P0", v)>>
                       ELSE IF p_name = S_p2 THEN <<AnalogReadPin("P2", v)>>
                       ELSE <<>>
             val    == IF read = <<>> THEN 0 ELSE v
         IN  read \o reply(S_PIN_ \o p_name \o S_colon_ \o NumToStr(val))

\* else if (cmd == "get_pin") { ... }
do_get_pin(parts, v) ==
    IF Len(parts) < 2 THEN <<>>
    ELSE LET p_name == parts[2]
             read   == IF p_name = S_p0 THEN <<AnalogReadPin("P0", v)>>
                       ELSE IF p_name = S_p1 THEN <<AnalogReadPin("P1", v)>>
                       ELSE IF p_name = S_p2 THEN <<AnalogReadPin("P2", v)>>
                       ELSE <<>>
             val    == IF read = <<>> THEN 0 ELSE v
         IN  read \o reply(S_PIN_ \o p_name \o S_colon_ \o NumToStr(val))

\* Mutant of do_pin: the mode test is flattened into the pin chain, so that
\* mode "d" with a pin the digital tests do not name reaches the analog ones.
do_pin_falls_through(parts) ==
    IF Len(parts) < 4 THEN <<>>
    ELSE LET mode    == parts[2]
             p_label == parts[3]
             n       == parseInt(parts[4])
         IN  IF mode = S_d /\ p_label = S_p0 THEN <<DigitalWritePin("P0", n)>>
             ELSE IF mode = S_d /\ p_label = S_p1 THEN <<DigitalWritePin("P1", n)>>
             ELSE IF p_label = S_p0 THEN <<AnalogWritePin("P0", n)>>
             ELSE IF p_label = S_p1 THEN <<AnalogWritePin("P1", n)>>
             ELSE IF p_label = S_p2 THEN <<AnalogWritePin("P2", n)>>
             ELSE <<>>

\* else if (cmd == "pin") { ... }
do_pin(parts) ==
    IF Len(parts) < 4 THEN <<>>
    ELSE LET mode    == parts[2]
             p_label == parts[3]
             n       == parseInt(parts[4])
         IN  IF mode = S_d
             THEN IF p_label = S_p0 THEN <<DigitalWritePin("P0", n)>>
                  ELSE IF p_label = S_p1 THEN <<DigitalWritePin("P1", n)>>
                  ELSE IF p_label = S_p2 THEN <<DigitalWritePin("P2", n)>>
                  ELSE <<>>
             ELSE IF p_label = S_p0 THEN <<AnalogWritePin("P0", n)>>
             ELSE IF p_label = S_p1 THEN <<AnalogWritePin("P1", n)>>
             ELSE IF p_label = S_p2 THEN <<AnalogWritePin("P2", n)>>
             ELSE <<>>

\* Mutant of do_tone: the arity guard is off by one; the missing duration
\* is parseInt(undefined).
do_tone_guard_off_by_one(parts) ==
    IF Len(parts) < 2 THEN <<>>
    ELSE <<Play(parseInt(parts[2]), IF Len(parts) < 3 THEN NaN ELSE parseInt(parts[3]))>>

\* else if (cmd == "tone") { ... }
do_tone(parts) ==
    IF Len(parts) < 3 THEN <<>>
    ELSE <<Play(parseInt(parts[2]), parseInt(parts[3]))>>

\* else if (cmd == "print") { ... }: text += parts[i] + " " for i >= 1
RECURSIVE print_text(_, _)
print_text(parts, i) ==
    IF i > Len(parts) THEN <<>>
    ELSE parts[i] \o <<" ">> \o print_text(parts, i + 1)

\* Mutant of do_print: the joined text is shown without trimming.
do_print_untrimmed(parts) == <<ShowString(print_text(parts, 2))>>

do_print(parts) == <<ShowString(trim(print_text(parts, 2)))>>

\* Mutant of do_plot: the command acknowledges the pixel it set.
do_plot_acknowledged(parts) ==
    IF Len(parts) < 3 THEN <<>>
    ELSE <<Plot(parseInt(parts[2]), parseInt(parts[3]))>> \o reply(<<"O","K">>)

\* else if (cmd == "plot") / "unplot" / "toggle"
do_plot(parts) ==
    IF Len(parts) < 3 THEN <<>>
    ELSE <<Plot(parseInt(parts[2]), parseInt(parts[3]))>>

do_unplot(parts) ==
    IF Len(parts) < 3 THEN <<>>
    ELSE <<Unplot(parseInt(parts[2]), parseInt(parts[3]))>>

do_toggle(parts) ==
    IF Len(parts) < 3 THEN <<>>
    ELSE <<Toggle(parseInt(parts[2]), parseInt(parts[3]))>>

\* else if (cmd == "clear")
do_clear == <<ClearScreen>>

\* Mutant of do_reset: the reply is sent before the sounds are stopped.
do_reset_reply_early ==
    <<ClearScreen,
      AnalogWritePin("P0", Num(0)),
      AnalogWritePin("P1", Num(0)),
      AnalogWritePin("P2", Num(0))>> \o reply(S_RESET_OK) \o <<StopAllSounds>>

\* else if (cmd == "reset")
do_reset ==
    <<ClearScreen,
      AnalogWritePin("P0", Num(0)),
      AnalogWritePin("P1", Num(0)),
      AnalogWritePin("P2", Num(0)),
      StopAllSounds>> \o reply(S_RESET_OK)

\* else if (cmd == "ping")
do_ping == reply(S_pong)

\* Mutant of do_version: the version string of an earlier release.
do_version_stale == reply(<<"m","i","c","r","o","b","i","t","_","V","2","0","2","5",".","1","2",".","1">>)

\* else if (cmd == "version")
do_version == reply(S_microbit_V2026_01_1)

\* Mutant of dispatch: a final else reports the unknown command.
dispatch_else_error(c, parts, v) ==
    IF c = S_get_sensor THEN do_get_sensor(parts, v)
    ELSE IF c = S_get_pin THEN do_get_pin(parts, v)
    ELSE IF c = S_pin THEN do_pin(parts)
    ELSE IF c = S_tone THEN do_tone(parts)
    ELSE IF c = S_print THEN do_print(parts)
    ELSE IF c = S_plot THEN do_plot(parts)
    ELSE IF c = S_unplot THEN do_unplot(parts)
    ELSE IF c = S_toggle THEN do_toggle(parts)
    ELSE IF c = S_clear THEN do_clear
    ELSE IF c = S_reset THEN do_reset
    ELSE IF c = S_ping THEN do_ping
    ELSE IF c = S_version THEN do_version
    ELSE reply(<<"E","R","R">>)

\* The if / else-if chain on cmd; there is no final else.
dispatch(c, parts, v) ==
    IF c = S_get_sensor THEN do_get_sensor(parts, v)
    ELSE IF c = S_get_pin THEN do_get_pin(parts, v)
    ELSE IF c = S_pin THEN do_pin(parts)
    ELSE IF c = S_tone THEN do_tone(parts)
    ELSE IF c = S_print THEN do_print(parts)
    ELSE IF c = S_plot THEN do_plot(parts)
    ELSE IF c = S_unplot THEN do_unplot(parts)
    ELSE IF c = S_toggle THEN do_toggle(parts)
    ELSE IF c = S_clear THEN do_clear
    ELSE IF c = S_reset THEN do_reset
    ELSE IF c = S_ping THEN do_ping
    ELSE IF c = S_version THEN do_version
    ELSE <<>>

\* Mutant of process_command: cmd is assigned before the empty-line check.
process_command_assign_first(msg_input, v) ==
    LET raw_msg == toLowerCase(trim(msg_input))
        parts   == py_string_split(raw_msg, " ")
    IN  [assigns_cmd |-> TRUE, cmd |-> parts[1],
         effects |-> IF Len(raw_msg) = 0 THEN <<>> ELSE dispatch(parts[1], parts, v)]

\* function process_command(msg_input): whether the call assigns the global
\* cmd and the value it assigns, and the effects of the call, in order.
\* v is the value the hardware returns to a read made during the call.
process_command(msg_input, v) ==
    LET raw_msg == toLowerCase(trim(msg_input))
    IN  IF Len(raw_msg) = 0
        THEN [assigns_cmd |-> FALSE, cmd |-> <<>>, effects |-> <<>>]
        ELSE LET parts == py_string_split(raw_msg, " ")
             IN  [assigns_cmd |-> TRUE, cmd |-> parts[1],
                  effects |-> dispatch(parts[1], parts, v)]

(***************************************************************************)
(* The first encoding of the program (lines 1-113 of the source, in the    *)
(* Python syntax of the same editor), translated branch by branch.         *)
(***************************************************************************)
\* def reply(msg)
py_reply(msg) == <<UartWriteLine(msg), SerialWriteLine(msg)>>

\* if cmd == "get_sensor":
py_get_sensor(parts, v) ==
    IF Len(parts) < 2 THEN <<>>
    ELSE LET _type == parts[2]
         IN  IF _type = <<"t","e","m","p">> THEN <<Temperature(v)>> \o py_reply(NumToStr(v))
             ELSE IF _type = <<"l","i","g","h","t">> THEN <<LightLevel(v)>> \o py_reply(NumToStr(v))
             ELSE IF _type = <<"a","c","c","e","l">> THEN <<Acceleration(v)>> \o py_reply(NumToStr(v))
             ELSE IF _type = <<"c","o","m","p","a","s","s">>
                  THEN <<CompassHeading(v)>> \o py_reply(NumToStr(v))
             ELSE <<>>

\* elif cmd == "get_pin":
py_get_pin(parts, v) ==
    IF Len(parts) < 2 THEN <<>>
    ELSE LET p_name == parts[2]
             read   == IF p_name = <<"p","0">> THEN <<AnalogReadPin("P0", v)>>
                       ELSE IF p_name = <<"p","1">> THEN <<AnalogReadPin("P1", v)>>
                       ELSE IF p_name = <<"p","2">> THEN <<AnalogReadPin("P2", v)>>
                       ELSE <<>>
             val    == IF read = <<>> THEN 0 ELSE v
         IN  read \o py_reply(<<"P","I","N"," ">> \o p_name \o <<":"," ">> \o NumToStr(val))

\* elif cmd == "pin":
py_pin(parts) ==
    IF Len(parts) < 4 THEN <<>>
    ELSE LET mode    == parts[2]
             p_label == parts[3]
             n       == parseInt(parts[4])
         IN  IF mode = <<"d">>
             THEN IF p_label = <<"p","0">> THEN <<DigitalWritePin("P0", n)>>
                  ELSE IF p_label = <<"p","1">> THEN <<DigitalWritePin("P1", n)>>
                  ELSE IF p_label = <<"p","2">> THEN <<DigitalWritePin("P2", n)>>
                  ELSE <<>>
             ELSE IF p_label = <<"p","0">> THEN <<AnalogWritePin("P0", n)>>
             ELSE IF p_label = <<"p","1">> THEN <<AnalogWritePin("P1", n)>>
             ELSE IF p_label = <<"p","2">> THEN <<AnalogWritePin("P2", n)>>
             ELSE <<>>

\* elif cmd == "tone":
py_tone(parts) ==
    IF Len(parts) < 3 THEN <<>>
    ELSE <<Play(parseInt(parts[2]), parseInt(parts[3]))>>

\* elif cmd == "print": for i in range(1, len(parts)): text += parts[i] + " "
RECURSIVE py_print_text(_, _)
py_print_text(parts, i) ==
    IF i > Len(parts) THEN <<>>
    ELSE parts[i] \o <<" ">> \o py_print_text(parts, i + 1)

py_print(parts) == <<ShowString(trim(py_print_text(parts, 2)))>>

\* elif cmd == "plot" / "unplot" / "toggle"
py_plot(parts) ==
    IF Len(parts) < 3 THEN <<>>
    ELSE <<Plot(parseInt(parts[2]), parseInt(parts[3]))>>

py_unplot(parts) ==
    IF Len(parts) < 3 THEN <<>>
    ELSE <<Unplot(parseInt(parts[2]), parseInt(parts[3]))>>

py_toggle(parts) ==
    IF Len(parts) < 3 THEN <<>>
    ELSE <<Toggle(parseInt(parts[2]), parseInt(parts[3]))>>

\* elif cmd == "reset":
py_reset ==
    <<ClearScreen,
      AnalogWritePin("P0", Num(0)),
      AnalogWritePin("P1", Num(0)),
      AnalogWritePin("P2", Num(0)),
      StopAllSounds>> \o py_reply(<<"R","E","S","E","T","_","O","K">>)

\* The if / elif chain of the first encoding; it ends with "ping".
py_dispatch(c, parts, v) ==
    IF c = <<"g","e","t","_","s","e","n","s","o","r">> THEN py_get_sensor(parts, v)
    ELSE IF c = <<"g","e","t","_","p","i","n">> THEN py_get_pin(parts, v)
    ELSE IF c = <<"p","i","n">> THEN py_pin(parts)
    ELSE IF c = <<"t","o","n","e">> THEN py_tone(parts)
    ELSE IF c = <<"p","r","i","n","t">> THEN py_print(parts)
    ELSE IF c = <<"p","l","o","t">> THEN py_plot(parts)
    ELSE IF c = <<"u","n","p","l","o","t">> THEN py_unplot(parts)
    ELSE IF c = <<"t","o","g","g","l","e">> THEN py_toggle(parts)
    ELSE IF c = <<"c","l","e","a","r">> THEN <<ClearScreen>>
    ELSE IF c = <<"r","e","s","e","t">> THEN py_reset
    ELSE IF c = <<"p","i","n","g">> THEN py_reply(<<"p","o","n","g">>)
    ELSE <<>>

\* def process_command(msg_input) of the first encoding.
py_process_command(msg_input, v) ==
    LET raw_msg == toLowerCase(trim(msg_input))
    IN  IF Len(raw_msg) = 0
        THEN [assigns_cmd |-> FALSE, cmd |-> <<>>, effects |-> <<>>]
        ELSE LET parts == py_string_split(raw_msg, " ")
             IN  [assigns_cmd |-> TRUE, cmd |-> parts[1],
                  effects |-> py_dispatch(parts[1], parts, v)]

(***************************************************************************)
(* Lines the transports deliver.  A line is sent as a sequence of words    *)
(* (lower-case, without spaces; an empty word between two others stands    *)
(* for two adjacent spaces), written in some letter case, joined by single *)
(* spaces and padded with whitespace.                                      *)
(***************************************************************************)
S_foo    == <<"f","o","o">>
S_pins   == <<"p","i","n","s">>
S_ping_tab_x == <<"p","i","n","g","\t","x">>
S_p7     == <<"p","7">>
S_a      == <<"a">>
S_hello  == <<"h","e","l","l","o">>
S_world  == <<"w","o","r","l","d">>
S_1      == <<"1">>
S_2      == <<"2">>
S_255    == <<"2","5","5">>
S_minus4 == <<"-","4">>
S_3x     == <<"3","x">>

CommandNames ==
    {S_get_sensor, S_get_pin, S_pin, S_tone, S_print, S_plot, S_unplot,
     S_toggle, S_clear, S_reset, S_ping, S_version}

UnknownNames == {S_foo, S_pins, S_ping_tab_x}

\* Argument lists tried with every name.
CommonArgs ==
    {<<>>, <<S_p0>>, <<S_p7>>, <<S_temp>>, <<<<>>, S_p0>>, <<S_1, S_2>>,
     <<S_hello, S_world>>, <<S_d, S_p0, S_1>>}

\* Further sensor and pin selectors.
SelectorArgs ==
    {<<S_p1>>, <<S_p2>>, <<S_light>>, <<S_accel>>, <<S_compass>>,
     <<<<>>, <<>>, S_p1>>}

\* Further mode / pin / value lists.
PinArgs ==
    {<<S_d, S_p1, S_1>>, <<S_d, S_p2, S_minus4>>, <<S_d, S_p7, S_1>>,
     <<S_a, S_p0, S_255>>, <<S_a, S_p1, S_3x>>, <<S_a, S_p2, S_hello>>,
     <<S_a, S_p7, S_255>>, <<S_d, S_p0>>, <<S_hello, <<>>, S_world>>}

PlainWords ==
    {<<c>> \o a : c \in CommandNames \cup UnknownNames, a \in CommonArgs}
    \cup {<<c>> \o a : c \in {S_get_sensor, S_get_pin}, a \in SelectorArgs}
    \cup {<<c>> \o a : c \in {S_pin, S_pins, S_tone}, a \in PinArgs}

PaddedWords ==
    {<<>>, <<S_ping>>, <<S_version, S_1>>, <<S_reset>>, <<S_get_pin, S_p1>>,
     <<S_get_sensor, S_temp>>, <<S_print, S_hello, S_world>>, <<S_foo, S_p0>>,
     <<S_pin, S_d, S_p0, S_1>>}

Paddings ==
    {[pre |-> <<" ", " ">>, case |-> "upper", post |-> <<" ", " ">>],
     [pre |-> <<"\t">>,     case |-> "title", post |-> <<"\r">>],
     [pre |-> <<>>,         case |-> "upper", post |-> <<>>],
     [pre |-> <<" ">>,      case |-> "lower", post |-> <<"\t", " ">>]}

UpperChar(c) == IF IsIn(c, LowerChars) THEN UpperChars[IndexIn(c, LowerChars)] ELSE c

InCase(w, case) ==
    [i \in 1..Len(w) |->
        IF case = "upper" \/ (case = "title" /\ i = 1) THEN UpperChar(w[i]) ELSE w[i]]

RECURSIVE JoinWords(_, _)
JoinWords(ws, case) ==
    IF Len(ws) = 0 THEN <<>>
    ELSE IF Len(ws) = 1 THEN InCase(ws[1], case)
    ELSE InCase(ws[1], case) \o <<" ">> \o JoinWords(Tail(ws), case)

RawLine(ws, pad) == pad.pre \o JoinWords(ws, pad.case) \o pad.post

NoPadding == [pre |-> <<>>, case |-> "lower", post |-> <<>>]

Lines ==
    {[words |-> ws, raw |-> RawLine(ws, NoPadding)] : ws \in PlainWords}
    \cup {[words |-> ws, raw |-> RawLine(ws, pad)] : ws \in PaddedWords, pad \in Paddings}

\* Values a sensor or an analog pin read returns.
ReadVals == {-5, 0, 512}

(***************************************************************************)
(* State                                                                   *)
(***************************************************************************)
VARIABLES
    cmd,        \* let cmd = "": the command name of the last non-empty line
    last_input, \* the raw line (msg_input) of the last process_command call
    words,      \* the words the sender put on that line
    via,        \* the listener that made the call
    effects,    \* the hardware and transport calls of that call, in order
    bt_out,     \* every line written to the wireless UART so far
    ser_out,    \* every line written to the serial link so far
    nlines      \* number of lines delivered so far

vars == <<cmd, last_input, words, via, effects, bt_out, ser_out, nlines>>

Written(effs, op) ==
    LET sel == SelectSeq(effs, LAMBDA e : e.op = op)
    IN  [i \in 1..Len(sel) |-> sel[i].msg]

Init ==
    /\ cmd = <<>>
    /\ last_input = <<>>
    /\ words = <<>>
    /\ via = "none"
    /\ effects = <<>>
    /\ bt_out = <<>>
    /\ ser_out = <<>>
    /\ nlines = 0

\* Every process_command call the listeners can make: the line and the
\* result of the call, for each value a hardware read can return during it.
Calls ==
    {[line |-> l, r |-> process_command(l.raw, v)] :
        l \in Lines, v \in ReadVals}

\* Mutant of Deliver: the empty-line check guards only the assignment to cmd,
\* so a blank line runs the chain on the command name of the previous line.
Deliver_stale_cmd(src, k) ==
    /\ cmd' = IF k.r.assigns_cmd THEN k.r.cmd ELSE cmd
    /\ last_input' = k.line.raw
    /\ words' = k.line.words
    /\ via' = src
    /\ effects' = IF k.r.assigns_cmd THEN k.r.effects ELSE dispatch(cmd, <<cmd>>, 0)
    /\ bt_out' = bt_out \o Written(effects', "uartWriteLine")
    /\ ser_out' = ser_out \o Written(effects', "serialWriteLine")
    /\ nlines' = nlines + 1

\* One listener callback: process_command(line) run to completion.
Deliver(src, k) ==
    /\ cmd' = IF k.r.assigns_cmd THEN k.r.cmd ELSE cmd
    /\ last_input' = k.line.raw
    /\ words' = k.line.words
    /\ via' = src
    /\ effects' = k.r.effects
    /\ bt_out' = bt_out \o Written(k.r.effects, "uartWriteLine")
    /\ ser_out' = ser_out \o Written(k.r.effects, "serialWriteLine")
    /\ nlines' = nlines + 1

\* bluetooth.onUartDataReceived(NewLine, function on_uart_data_received() ...)
on_uart_data_received ==
    /\ nlines < MaxLines
    /\ \E k \in Calls : Deliver("uart", k)

\* serial.onDataReceived(NewLine, function on_data_received() ...)
on_data_received ==
    /\ nlines < MaxLines
    /\ \E k \in Calls : Deliver("serial", k)

Next == on_uart_data_received \/ on_data_received

Spec == Init /\ [][Next]_vars

(***************************************************************************)
(* Properties                                                              *)
(***************************************************************************)
\* The command name of the last line as its sender wrote it, lower-cased;
\* the empty string for a blank line.
SentName == IF Len(words) = 0 THEN <<>> ELSE words[1]

\* C1: a line whose lower-cased first token is not a registered command
\* name makes no hardware call and writes no reply to either transport,
\* whatever its other tokens are.
C1_UnknownCommandSilent ==
    (nlines > 0 /\ SentName \notin CommandNames) => effects = <<>>

C1_Witness ==
    /\ nlines > 0
    /\ words = <<S_pins, S_d, S_p0, S_1>>
    /\ effects = <<>>

\* C2: a registered command with fewer tokens than its minimum (get_sensor,
\* get_pin: 2; pin: 4; tone, plot, unplot, toggle: 3) makes no hardware
\* call and sends no reply.
C2_UnderAritySilent ==
    LET min == IF SentName \in {S_get_sensor, S_get_pin} THEN 2
               ELSE IF SentName = S_pin THEN 4
               ELSE IF SentName \in {S_tone, S_plot, S_unplot, S_toggle} THEN 3
               ELSE 0
    IN  (nlines > 0 /\ Len(words) < min) => effects = <<>>

C2_Witness ==
    /\ nlines > 0
    /\ words = <<S_tone, S_p0>>
    /\ effects = <<>>

\* C3: ping replies exactly "pong" and version replies exactly
\* "microbit_V2026.01.1", whatever arguments follow, with no hardware call.
C3_PingVersionReply ==
    /\ (nlines > 0 /\ SentName = S_ping)
          => effects = <<UartWriteLine(S_pong), SerialWriteLine(S_pong)>>
    /\ (nlines > 0 /\ SentName = S_version)
          => effects = <<UartWriteLine(S_microbit_V2026_01_1),
                         SerialWriteLine(S_microbit_V2026_01_1)>>

C3_Witness ==
    /\ nlines > 0
    /\ words = <<S_version, S_hello, S_world>>
    /\ Len(effects) = 2
    /\ effects[1].msg = S_microbit_V2026_01_1

\* C4: reset clears the display, writes analog 0 to P0, P1 and P2 and stops
\* all sounds, all five before the one reply "RESET_OK", which is the last
\* effect of the call.
C4_ResetThenReply ==
    (nlines > 0 /\ SentName = S_reset) =>
        /\ Len(effects) = 7
        /\ {effects[i] : i \in 1..5} =
              {ClearScreen, AnalogWritePin("P0", Num(0)), AnalogWritePin("P1", Num(0)),
               AnalogWritePin("P2", Num(0)), StopAllSounds}
        /\ effects[6] = UartWriteLine(S_RESET_OK)
        /\ effects[7] = SerialWriteLine(S_RESET_OK)

C4_Witness ==
    /\ nlines > 0
    /\ words = <<S_reset, S_p7>>
    /\ Len(effects) = 7
    /\ effects[7].msg = S_RESET_OK

\* C5: get_pin with at least 2 tokens whose second token is not p0, p1 or
\* p2 reads no pin and still sends the one reply "PIN <arg1>: 0".
C5_GetPinUnknownRepliesZero ==
    (nlines > 0 /\ SentName = S_get_pin /\ Len(words) >= 2
        /\ words[2] \notin {S_p0, S_p1, S_p2}) =>
        LET msg == <<"P","I","N"," ">> \o words[2] \o <<":"," ","0">>
        IN  effects = <<UartWriteLine(msg), SerialWriteLine(msg)>>

C5_Witness ==
    /\ nlines > 0
    /\ words = <<S_get_pin, S_p7>>
    /\ Len(effects) = 2
    /\ effects[1].msg = <<"P","I","N"," ","p","7",":"," ","0">>

\* C6: get_pin with at least 2 tokens whose second token is p0, p1 or p2
\* makes exactly one analog read, of the pin of that name, and sends the
\* one reply "PIN <arg1>: <v>" with v the value the read returned.
C6_GetPinReadsNamedPin ==
    (nlines > 0 /\ SentName = S_get_pin /\ Len(words) >= 2
        /\ words[2] \in {S_p0, S_p1, S_p2}) =>
        LET pin == IF words[2] = S_p0 THEN "P0"
                   ELSE IF words[2] = S_p1 THEN "P1" ELSE "P2"
        IN  \E v \in ReadVals :
               LET msg == <<"P","I","N"," ">> \o words[2] \o <<":"," ">> \o NumToStr(v)
               IN  effects = <<AnalogReadPin(pin, v), UartWriteLine(msg), SerialWriteLine(msg)>>

C6_Witness ==
    /\ nlines > 0
    /\ words = <<S_get_pin, S_p1>>
    /\ effects = <<AnalogReadPin("P1", 512),
                   UartWriteLine(<<"P","I","N"," ","p","1",":"," ","5","1","2">>),
                   SerialWriteLine(<<"P","I","N"," ","p","1",":"," ","5","1","2">>)>>

\* The effects of each line once normalized: its words in lower case, joined
\* by single spaces, without padding.
NormalizedEffects ==
    {[words |-> l.words,
      effects |-> process_command(RawLine(l.words, NoPadding), v).effects] :
        l \in Lines, v \in ReadVals}

\* C7: a raw line produces the hardware calls and replies that the same
\* line produces with surrounding whitespace stripped and letters lower-cased.
C7_NormalizationInvariant ==
    nlines > 0 => [words |-> words, effects |-> effects] \in NormalizedEffects

C7_Witness ==
    /\ nlines > 0
    /\ last_input = <<" "," ","P","I","N","G"," "," ">>
    /\ words = <<S_ping>>
    /\ effects = <<UartWriteLine(S_pong), SerialWriteLine(S_pong)>>

\* C8: an empty or whitespace-only line produces no reply and no hardware
\* call and leaves cmd as it was before the call.
C8_BlankLineNoEffect ==
    [][(nlines' = nlines + 1 /\ words' = <<>>) =>
          /\ cmd' = cmd
          /\ effects' = <<>>
          /\ bt_out' = bt_out
          /\ ser_out' = ser_out]_vars

C8_Witness ==
    /\ nlines >= 2
    /\ last_input = <<" ", "\t", " ">>
    /\ words = <<>>
    /\ cmd = S_ping
    /\ effects = <<>>

\* C9: every reply is written once to the wireless UART and once to the
\* serial link with the same text, so both transports have received the
\* same sequence of messages, whichever listener delivered the lines.
C9_ReplyOnBothTransports ==
    /\ bt_out = ser_out
    /\ \A i \in 1..Len(effects) :
          /\ effects[i].op = "uartWriteLine" =>
                (i < Len(effects) /\ effects[i + 1] = SerialWriteLine(effects[i].msg))
          /\ effects[i].op = "serialWriteLine" =>
                (i > 1 /\ effects[i - 1] = UartWriteLine(effects[i].msg))

C9_Witness ==
    /\ nlines >= 2
    /\ via = "uart"
    /\ bt_out = <<S_pong, S_RESET_OK>>
    /\ ser_out = <<S_pong, S_RESET_OK>>

\* C10: print shows once the tokens after the command name, each followed
\* by a space, concatenated and trimmed; it sends no reply and has no arity
\* guard ("print hello world" shows "hello world", "print" shows "").
C10_PrintShowsJoinedText ==
    (nlines > 0 /\ SentName = S_print) =>
        LET args  == SubSeq(words, 2, Len(words))
            first == IF \A i \in 1..Len(args) : args[i] = <<>> THEN Len(args) + 1
                     ELSE CHOOSE i \in 1..Len(args) :
                            args[i] # <<>> /\ \A j \in 1..(i - 1) : args[j] = <<>>
        IN  effects = <<ShowString(JoinWords(SubSeq(args, first, Len(args)), "lower"))>>

C10_Witness ==
    /\ nlines > 0
    /\ words = <<S_print, S_hello, S_world>>
    /\ effects = <<ShowString(<<"h","e","l","l","o"," ","w","o","r","l","d">>)>>

C10_WitnessBare ==
    /\ nlines > 0
    /\ words = <<S_print>>
    /\ effects = <<ShowString(<<>>)>>

\* C11: get_sensor with at least 2 tokens reads the sensor its second token
\* names (temp, light, accel, compass) exactly once and sends exactly one
\* reply, the value read as a string; with any other second token it reads
\* no sensor and sends no reply.
C11_GetSensorReadsNamedSensor ==
    (nlines > 0 /\ SentName = S_get_sensor /\ Len(words) >= 2) =>
        IF words[2] \in {S_temp, S_light, S_accel, S_compass}
        THEN \E v \in ReadVals :
                LET read == IF words[2] = S_temp THEN Temperature(v)
                            ELSE IF words[2] = S_light THEN LightLevel(v)
                            ELSE IF words[2] = S_accel THEN Acceleration(v)
                            ELSE CompassHeading(v)
                    text == NumToStr(v)
                IN  effects = <<read, UartWriteLine(text), SerialWriteLine(text)>>
        ELSE effects = <<>>

C11_Witness ==
    /\ nlines > 0
    /\ words = <<S_get_sensor, S_compass>>
    /\ effects = <<CompassHeading(-5), UartWriteLine(<<"-","5">>), SerialWriteLine(<<"-","5">>)>>

C11_WitnessUnknown ==
    /\ nlines > 0
    /\ words = <<S_get_sensor, S_p7>>
    /\ effects = <<>>

\* C12: pin with at least 4 tokens writes int(arg3) to the pin arg2 names,
\* with one digital write when arg1 is "d" and one analog write otherwise;
\* when arg2 is not p0, p1 or p2 nothing is written in either mode; no reply
\* is sent.
C12_PinWritesSelectedMode ==
    (nlines > 0 /\ SentName = S_pin /\ Len(words) >= 4) =>
        LET pin   == IF words[3] = S_p0 THEN "P0"
                     ELSE IF words[3] = S_p1 THEN "P1" ELSE "P2"
            value == parseInt(words[4])
        IN  IF words[3] \notin {S_p0, S_p1, S_p2} THEN effects = <<>>
            ELSE IF words[2] = <<"d">> THEN effects = <<DigitalWritePin(pin, value)>>
            ELSE effects = <<AnalogWritePin(pin, value)>>

C12_Witness ==
    /\ nlines > 0
    /\ words = <<S_pin, S_d, S_p2, S_minus4>>
    /\ effects = <<DigitalWritePin("P2", Num(-4))>>

C12_WitnessAnalog ==
    /\ nlines > 0
    /\ words = <<S_pin, S_a, S_p0, S_255>>
    /\ effects = <<AnalogWritePin("P0", Num(255))>>

C12_WitnessUnknownPin ==
    /\ nlines > 0
    /\ words = <<S_pin, S_d, S_p7, S_1>>
    /\ effects = <<>>

\* C14: a dispatched line yields at most one reply and never an error
\* message: pin, tone, print, plot, unplot, toggle and clear send none, and
\* a reply is a sensor value, a "PIN <arg1>: <value>" line, "RESET_OK",
\* "pong" or the version string.
C14_AtMostOneKnownReply ==
    nlines > 0 =>
        LET uart   == {i \in 1..Len(effects) : effects[i].op = "uartWriteLine"}
            serial == {i \in 1..Len(effects) : effects[i].op = "serialWriteLine"}
        IN  /\ Cardinality(uart) <= 1
            /\ Cardinality(serial) <= 1
            /\ SentName \in {S_pin, S_tone, S_print, S_plot, S_unplot, S_toggle, S_clear}
                  => (uart = {} /\ serial = {})
            /\ \A i \in uart \cup serial :
                  \/ effects[i].msg \in {S_RESET_OK, S_pong, S_microbit_V2026_01_1}
                  \/ /\ SentName = S_get_sensor
                     /\ \E v \in ReadVals : effects[i].msg = NumToStr(v)
                  \/ /\ SentName = S_get_pin
                     /\ Len(words) >= 2
                     /\ \E v \in ReadVals \cup {0} :
                           effects[i].msg =
                              <<"P","I","N"," ">> \o words[2] \o <<":"," ">> \o NumToStr(v)

C14_Witness ==
    /\ nlines > 0
    /\ words = <<S_get_sensor, S_light>>
    /\ effects = <<LightLevel(512), UartWriteLine(<<"5","1","2">>),
                   SerialWriteLine(<<"5","1","2">>)>>

C14_WitnessSilent ==
    /\ nlines > 0
    /\ words = <<S_plot, S_1, S_2>>
    /\ effects = <<Plot(Num(1), Num(2))>>

\* The token sequence process_command computes for each line.
TokensOf ==
    {[raw |-> l.raw, parts |-> py_string_split(toLowerCase(trim(l.raw)), " ")] :
        l \in Lines}

\* C15: the normalized line is split at every single space without
\* collapsing runs: k adjacent spaces give k-1 empty tokens, which count
\* toward the arity guard and occupy argument positions ("get_pin  p0" has
\* 3 tokens, arg1 is empty: no analog read, reply "PIN : 0").
C15_EmptyTokensKept ==
    (nlines > 0 /\ Len(words) > 0) =>
        /\ [raw |-> last_input, parts |-> words] \in TokensOf
        /\ (SentName = S_get_pin /\ Len(words) >= 2 /\ words[2] = <<>>) =>
              effects = <<UartWriteLine(<<"P","I","N"," ",":"," ","0">>),
                          SerialWriteLine(<<"P","I","N"," ",":"," ","0">>)>>
        /\ (SentName \in {S_tone, S_plot, S_unplot, S_toggle} /\ Len(words) >= 3) =>
              Len(effects) = 1

C15_Witness ==
    /\ nlines > 0
    /\ last_input = <<"g","e","t","_","p","i","n"," "," ","p","0">>
    /\ words = <<S_get_pin, <<>>, S_p0>>
    /\ effects = <<UartWriteLine(<<"P","I","N"," ",":"," ","0">>),
                   SerialWriteLine(<<"P","I","N"," ",":"," ","0">>)>>

C15_WitnessThreeSpaces ==
    /\ nlines > 0
    /\ last_input = <<"g","e","t","_","p","i","n"," "," "," ","p","1">>
    /\ words = <<S_get_pin, <<>>, <<>>, S_p1>>
    /\ Len(effects) = 2

C15_WitnessArity ==
    /\ nlines > 0
    /\ words = <<S_plot, <<>>, S_p0>>
    /\ effects = <<Plot(NaN, NaN)>>

\* What the first encoding does with each line, for each value a hardware
\* read can return.
FirstEncodingResults ==
    {[raw |-> l.raw, r |-> py_process_command(l.raw, v)] : l \in Lines, v \in ReadVals}

\* C16: the two encodings of process_command in the source produce, for
\* every line and the same hardware read values, the same hardware calls
\* and the same replies (and the same assignment to cmd).
C16_EncodingsAgree ==
    nlines > 0 =>
        \E v \in ReadVals :
            /\ process_command(last_input, v).effects = effects
            /\ [raw |-> last_input, r |-> process_command(last_input, v)]
                  \in FirstEncodingResults

\* Apart from the version command the two encodings agree.
C16_EncodingsAgreeExceptVersion ==
    (nlines > 0 /\ SentName # S_version) =>
        \E v \in ReadVals :
            /\ process_command(last_input, v).effects = effects
            /\ [raw |-> last_input, r |-> process_command(last_input, v)]
                  \in FirstEncodingResults

\* The effects process_command has for each line, for each value a hardware
\* read can return.
LineEffects == {[raw |-> k.line.raw, effects |-> k.r.effects] : k \in Calls}

====
